---- MODULE Spec2Model ----
(***************************************************************************)
(* Model of chat-agent.py: the two HTTP clients (call_sql_api,             *)
(* call_vector_search_api), the two tool adapters, the orchestrator        *)
(* ask_indian_economy_agent and the read-evaluate-print loop of __main__.  *)
(*                                                                         *)
(* Python values are tagged records; a dict keeps its insertion order in   *)
(* `keys` and its mapping in `d`.  The remote services, the requests       *)
(* library and the language-model runtime are the environment: every       *)
(* outcome they can produce is drawn with \E.                              *)
(***************************************************************************)
EXTENDS Integers, Sequences, FiniteSets, TLC

(* ------------------------------------------------------------------ *)
(* Bounds of the model                                                 *)
(* ------------------------------------------------------------------ *)
\* number of lines the loop reads before the model stops reading
MaxTurns == 2
\* number of tool calls the agent runtime allows in one turn
MaxIterations == 2

(* ------------------------------------------------------------------ *)
(* Python values                                                       *)
(* ------------------------------------------------------------------ *)
PyNone == [t |-> "none"]
PyStr(s) == [t |-> "str", s |-> s]
PyNum(n) == [t |-> "num", n |-> n]
PyList(items) == [t |-> "list", items |-> items]
PyDict(keys, d) == [t |-> "dict", keys |-> keys, d |-> d]

\* str.startswith
StartsWith(s, p) == Len(s) >= Len(p) /\ SubSeq(s, 1, Len(p)) = p

UpperChars == "ABCDEFGHIJKLMNOPQRSTUVWXYZ"
LowerChars == "abcdefghijklmnopqrstuvwxyz"

LowerChar(c) ==
    IF \E i \in 1..Len(UpperChars) : SubSeq(UpperChars, i, i) = c
    THEN LET i == CHOOSE j \in 1..Len(UpperChars) : SubSeq(UpperChars, j, j) = c
         IN  SubSeq(LowerChars, i, i)
    ELSE c

\* faulty variant: the comparison made without lowering the line
Lower_CaseSensitive(s) == s

RECURSIVE Lower(_)
\* str.lower(): every character lowered, halves joined
Lower(s) ==
    IF Len(s) <= 1 THEN LowerChar(s)
    ELSE LET h == Len(s) \div 2
         IN  Lower(SubSeq(s, 1, h)) \o Lower(SubSeq(s, h + 1, Len(s)))

(* ------------------------------------------------------------------ *)
(* json.dumps                                                          *)
(* ------------------------------------------------------------------ *)
EscapeChar(c) ==
    IF c = "\"" THEN "\\\"" ELSE IF c = "\\" THEN "\\\\" ELSE c

RECURSIVE Escape(_)
\* the escaping json.dumps applies inside a string: every character, halves joined
Escape(s) ==
    IF Len(s) <= 1 THEN EscapeChar(s)
    ELSE LET h == Len(s) \div 2
         IN  Escape(SubSeq(s, 1, h)) \o Escape(SubSeq(s, h + 1, Len(s)))

RECURSIVE Dumps(_)
RECURSIVE DumpItems(_, _)
RECURSIVE DumpPairs(_, _, _)
\* json.dumps(v) with the default separators
Dumps(v) ==
    CASE v.t = "none" -> "null"
      [] v.t = "str"  -> "\"" \o Escape(v.s) \o "\""
      [] v.t = "num"  -> ToString(v.n)
      [] v.t = "list" -> "[" \o DumpItems(v.items, 1) \o "]"
      [] v.t = "dict" -> "{" \o DumpPairs(v.keys, v.d, 1) \o "}"

DumpItems(items, i) ==
    IF i > Len(items) THEN ""
    ELSE (IF i > 1 THEN ", " ELSE "") \o Dumps(items[i]) \o DumpItems(items, i + 1)

DumpPairs(keys, d, i) ==
    IF i > Len(keys) THEN ""
    ELSE (IF i > 1 THEN ", " ELSE "")
         \o "\"" \o Escape(keys[i]) \o "\": " \o Dumps(d[keys[i]])
         \o DumpPairs(keys, d, i + 1)

(* ------------------------------------------------------------------ *)
(* Environment: what the remote services can answer                    *)
(* ------------------------------------------------------------------ *)
\* questions the language model may pass to a tool
Questions == {"What is India's GDP in 2023?", "PLI scheme \"manufacturing\""}

\* HTTP status codes of a delivered response
Statuses == {200, 300, 404, 500}

BodyGdp == "{\"result\": {\"gdp\": 37}}"
BodyNullResult == "{\"result\": null}"
BodyNoResult == "{\"error\": \"bad query\"}"
BodyJsonList == "[1]"
BodyJsonNull == "null"
BodyHtml == "<html>Bad Gateway</html>"
BodyEmpty == ""
HitKeys == <<"content", "source", "date", "distance", "page", "reference", "cross_score">>

FullHit ==
    PyDict(HitKeys,
           [content |-> PyStr("Repo rate held"), source |-> PyStr("rbi.pdf"),
            date |-> PyStr("2023-04-06"), distance |-> PyNum(12),
            page |-> PyNum(3), reference |-> PyStr("RBI"),
            cross_score |-> PyNum(7)])

PartialHit ==
    PyDict(<<"content", "date">>,
           [content |-> PyStr("PLI outlay"), date |-> PyNone])

BareHit == PyDict(<<"page">>, [page |-> PyNum(1)])

Hits(items) == PyDict(<<"retrieved_results">>, [retrieved_results |-> items])

BodyNoHits == "{\"retrieved_results\": []}"
BodyTwoHits == Dumps(Hits(PyList(<<FullHit, PartialHit>>)))
BodyBareHit == Dumps(Hits(PyList(<<BareHit>>)))
BodyStrHit == Dumps(Hits(PyList(<<FullHit, PyStr("x")>>)))
BodyNullHits == "{\"retrieved_results\": null}"

\* response bodies (raw text) a service may send
Bodies == {BodyGdp, BodyNullResult, BodyNoResult, BodyJsonList, BodyJsonNull,
           BodyHtml, BodyEmpty, BodyNoHits, BodyTwoHits, BodyBareHit,
           BodyStrHit, BodyNullHits}

\* json.loads on the bodies above: [ok, v]; ok = FALSE is a decode error
JsonLoads(text) ==
    CASE text = BodyGdp ->
           [ok |-> TRUE,
            v |-> PyDict(<<"result">>,
                         [result |-> PyDict(<<"gdp">>, [gdp |-> PyNum(37)])])]
      [] text = BodyNullResult ->
           [ok |-> TRUE, v |-> PyDict(<<"result">>, [result |-> PyNone])]
      [] text = BodyNoResult ->
           [ok |-> TRUE, v |-> PyDict(<<"error">>, [error |-> PyStr("bad query")])]
      [] text = BodyJsonList -> [ok |-> TRUE, v |-> PyList(<<PyNum(1)>>)]
      [] text = BodyJsonNull -> [ok |-> TRUE, v |-> PyNone]
      [] text = BodyNoHits -> [ok |-> TRUE, v |-> Hits(PyList(<<>>))]
      [] text = BodyTwoHits -> [ok |-> TRUE, v |-> Hits(PyList(<<FullHit, PartialHit>>))]
      [] text = BodyBareHit -> [ok |-> TRUE, v |-> Hits(PyList(<<BareHit>>))]
      [] text = BodyStrHit -> [ok |-> TRUE, v |-> Hits(PyList(<<FullHit, PyStr("x")>>))]
      [] text = BodyNullHits -> [ok |-> TRUE, v |-> Hits(PyNone)]
      [] OTHER -> [ok |-> FALSE, v |-> PyNone]

\* outcomes of one HTTP request: no response at all, any body with a status
\* below 400, an error page or a well-formed body with an error status
NetOutcomes ==
    { [transport |-> tr, status |-> 0, text |-> ""] :
        tr \in {"ConnectionError", "Timeout", "UnexpectedError"} }
    \cup
    { [transport |-> "response", status |-> st, text |-> b] :
        st \in {x \in Statuses : x < 400}, b \in Bodies }
    \cup
    { [transport |-> "response", status |-> st, text |-> b] :
        st \in {x \in Statuses : x >= 400}, b \in {BodyHtml, BodyGdp, BodyNoHits} }

\* which class response.json() raises depends on the installed requests
Builds == {"requests>=2.27", "requests<2.27"}

(* ------------------------------------------------------------------ *)
(* Exceptions                                                          *)
(* ------------------------------------------------------------------ *)
Exc(cls, msg) == [cls |-> cls, msg |-> msg]

\* isinstance(e, requests.exceptions.RequestException)
IsRequestException(e) ==
    e.cls \in {"ConnectionError", "Timeout", "HTTPError", "requests.JSONDecodeError"}

\* isinstance(e, json.JSONDecodeError)
IsJSONDecodeError(e) ==
    e.cls \in {"requests.JSONDecodeError", "json.JSONDecodeError"}

NoExc == Exc("", "")
NoResponse == [status_code |-> 0, text |-> ""]

\* outcome of a try body: raised/exc, the value it returned, whether the
\* local `response` was bound and to what, and the HTTP requests it made
Ran(raised, exc, value, bound, response, attempts) ==
    [raised |-> raised, exc |-> exc, value |-> value, bound |-> bound,
     response |-> response, attempts |-> attempts]

\* outcome of a call: "return" with a value or "raise" with an exception
Return(value, attempts) ==
    [kind |-> "return", value |-> value, exc |-> NoExc, attempts |-> attempts]
Raise(exc, attempts) ==
    [kind |-> "raise", value |-> PyNone, exc |-> exc, attempts |-> attempts]

(* ------------------------------------------------------------------ *)
(* requests                                                            *)
(* ------------------------------------------------------------------ *)
\* requests.get / requests.post: one request, no retry
RequestsSend(net) ==
    CASE net.transport = "response" ->
           [raised |-> FALSE, exc |-> NoExc,
            response |-> [status_code |-> net.status, text |-> net.text]]
      [] net.transport = "ConnectionError" ->
           [raised |-> TRUE, exc |-> Exc("ConnectionError", "Connection refused"),
            response |-> NoResponse]
      [] net.transport = "Timeout" ->
           [raised |-> TRUE, exc |-> Exc("Timeout", "Read timed out."),
            response |-> NoResponse]
      [] OTHER ->
           [raised |-> TRUE, exc |-> Exc("UnicodeEncodeError", "surrogates not allowed"),
            response |-> NoResponse]

\* faulty variant: only server errors raise
RaiseForStatus_Only5xx(response) ==
    IF response.status_code >= 500 /\ response.status_code < 600
    THEN [raised |-> TRUE, exc |-> Exc("HTTPError", ToString(response.status_code) \o " Server Error")]
    ELSE [raised |-> FALSE, exc |-> NoExc]

\* response.raise_for_status(): HTTPError for 4xx and 5xx
RaiseForStatus(response) ==
    IF response.status_code >= 400 /\ response.status_code < 500
    THEN [raised |-> TRUE, exc |-> Exc("HTTPError", ToString(response.status_code) \o " Client Error")]
    ELSE IF response.status_code >= 500 /\ response.status_code < 600
    THEN [raised |-> TRUE, exc |-> Exc("HTTPError", ToString(response.status_code) \o " Server Error")]
    ELSE [raised |-> FALSE, exc |-> NoExc]

\* response.json()
ResponseJson(response, build) ==
    LET parsed == JsonLoads(response.text) IN
    IF parsed.ok THEN [raised |-> FALSE, exc |-> NoExc, v |-> parsed.v]
    ELSE [raised |-> TRUE,
          exc |-> Exc(IF build = "requests>=2.27" THEN "requests.JSONDecodeError"
                                                  ELSE "json.JSONDecodeError",
                      "Expecting value"),
          v |-> PyNone]

\* obj[key] with a str key
Subscript(obj, key) ==
    IF obj.t = "dict"
    THEN IF key \in DOMAIN obj.d
         THEN [raised |-> FALSE, exc |-> NoExc, v |-> obj.d[key]]
         ELSE [raised |-> TRUE, exc |-> Exc("KeyError", "'" \o key \o "'"), v |-> PyNone]
    ELSE [raised |-> TRUE, exc |-> Exc("TypeError", "bad subscript"), v |-> PyNone]

\* dict.get(key, default)
DictGet(dict, key, default) ==
    IF key \in DOMAIN dict.d THEN dict.d[key] ELSE default

(* ------------------------------------------------------------------ *)
(* call_sql_api                                                        *)
(* ------------------------------------------------------------------ *)
\* faulty variant: the payload is returned serialized instead of as it came
SqlSuccessEnvelope_Stringified(question, result) ==
    PyDict(<<"status", "question", "data">>,
           [status |-> PyStr("success"), question |-> PyStr(question),
            data |-> PyStr(Dumps(result))])

\* return {"status": "success", "question": question, "data": api_response["result"]}
SqlSuccessEnvelope(question, result) ==
    PyDict(<<"status", "question", "data">>,
           [status |-> PyStr("success"), question |-> PyStr(question), data |-> result])

\* the envelope of `except requests.exceptions.RequestException as e`
SqlConnectEnvelope(e) ==
    PyDict(<<"status", "message", "data">>,
           [status |-> PyStr("error"),
            message |-> PyStr("Failed to connect to SQL API: " \o e.msg),
            data |-> PyNone])

\* the envelope of `except json.JSONDecodeError`
SqlDecodeEnvelope(response) ==
    PyDict(<<"status", "message", "data">>,
           [status |-> PyStr("error"),
            message |-> PyStr("Failed to decode JSON response from SQL API."),
            data |-> PyStr(response.text)])

\* faulty variant: the catch-all envelope carries no message
SqlUnexpectedEnvelope_NoMessage(response) ==
    PyDict(<<"status", "data">>,
           [status |-> PyStr("error"), data |-> PyStr(response.text)])

\* the envelope of the bare `except:`
SqlUnexpectedEnvelope(response) ==
    PyDict(<<"status", "message", "data">>,
           [status |-> PyStr("error"),
            message |-> PyStr("An unexpected error occurred."),
            data |-> PyStr(response.text)])

\* the try body of call_sql_api
SqlTry(question, net, build) ==
    LET got == RequestsSend(net) IN
    IF got.raised THEN Ran(TRUE, got.exc, PyNone, FALSE, NoResponse, 1)
    ELSE
    LET response == got.response
        st == RaiseForStatus(response) IN
    IF st.raised THEN Ran(TRUE, st.exc, PyNone, TRUE, response, 1)
    ELSE
    LET api_response == ResponseJson(response, build) IN
    IF api_response.raised THEN Ran(TRUE, api_response.exc, PyNone, TRUE, response, 1)
    ELSE
    LET result == Subscript(api_response.v, "result") IN
    IF result.raised THEN Ran(TRUE, result.exc, PyNone, TRUE, response, 1)
    ELSE Ran(FALSE, NoExc, SqlSuccessEnvelope(question, result.v), TRUE, response, 1)

\* reading the local `response` inside a handler
UnboundResponse == Exc("UnboundLocalError", "local variable 'response' referenced before assignment")

\* the three except clauses of call_sql_api, in order, applied to what the
\* try body did
SqlExcept(body) ==
    IF ~body.raised THEN Return(body.value, body.attempts)
    ELSE IF IsRequestException(body.exc)
    THEN Return(SqlConnectEnvelope(body.exc), body.attempts)
    ELSE IF IsJSONDecodeError(body.exc)
    THEN IF body.bound
         THEN Return(SqlDecodeEnvelope(body.response), body.attempts)
         ELSE Raise(UnboundResponse, body.attempts)
    ELSE IF body.bound
         THEN Return(SqlUnexpectedEnvelope(body.response), body.attempts)
         ELSE Raise(UnboundResponse, body.attempts)

\* call_sql_api: the try body, then its except clauses
call_sql_api(question, net, build) == SqlExcept(SqlTry(question, net, build))

(* ------------------------------------------------------------------ *)
(* call_vector_search_api                                              *)
(* ------------------------------------------------------------------ *)
\* faulty variant: the snippet keeps the hit's distance
SnippetOf_KeepsDistance(hit) ==
    PyDict(<<"content", "distance", "source", "date">>,
           [content |-> DictGet(hit, "content", PyStr("No Title")),
            distance |-> DictGet(hit, "distance", PyStr("No Snippet")),
            source |-> DictGet(hit, "source", PyStr("No URL")),
            date |-> DictGet(hit, "date", PyStr("No Date"))])

\* the seven-key snippet built from one hit, reduced to the three kept keys
SnippetOf(hit) ==
    LET snippet ==
          [content |-> DictGet(hit, "content", PyStr("No Title")),
           distance |-> DictGet(hit, "distance", PyStr("No Snippet")),
           source |-> DictGet(hit, "source", PyStr("No URL")),
           page |-> DictGet(hit, "page", PyStr("No Page Number")),
           reference |-> DictGet(hit, "reference", PyStr("No Reference")),
           cross_score |-> DictGet(hit, "cross_score", PyStr("No Cross Score")),
           date |-> DictGet(hit, "date", PyStr("No Date"))]
    IN  PyDict(<<"content", "source", "date">>,
               [content |-> snippet.content, source |-> snippet.source,
                date |-> snippet.date])

RECURSIVE CollectSnippets(_, _, _)
\* the for loop: results.append(...) per hit, AttributeError on a hit
\* without .get, TypeError when the value cannot be iterated
CollectSnippets(hits, i, results) ==
    IF hits.t # "list"
    THEN [raised |-> TRUE, exc |-> Exc("TypeError", "object is not iterable"), v |-> PyNone]
    ELSE IF i > Len(hits.items)
    THEN [raised |-> FALSE, exc |-> NoExc, v |-> PyList(results)]
    ELSE IF hits.items[i].t # "dict"
    THEN [raised |-> TRUE, exc |-> Exc("AttributeError", "object has no attribute 'get'"), v |-> PyNone]
    ELSE CollectSnippets(hits, i + 1, Append(results, SnippetOf(hits.items[i])))

\* return {"status": "success", "question": question, "data": results}
VectorSuccessEnvelope(question, results) ==
    PyDict(<<"status", "question", "data">>,
           [status |-> PyStr("success"), question |-> PyStr(question), data |-> results])

VectorConnectEnvelope(e) ==
    PyDict(<<"status", "message", "data">>,
           [status |-> PyStr("error"),
            message |-> PyStr("Failed to connect to Vector Search API: " \o e.msg),
            data |-> PyNone])

VectorDecodeEnvelope(response) ==
    PyDict(<<"status", "message", "data">>,
           [status |-> PyStr("error"),
            message |-> PyStr("Failed to decode JSON response from Vector Search API."),
            data |-> PyStr(response.text)])

\* the try body of call_vector_search_api
VectorTry(question, net, build) ==
    LET got == RequestsSend(net) IN
    IF got.raised THEN Ran(TRUE, got.exc, PyNone, FALSE, NoResponse, 1)
    ELSE
    LET response == got.response
        st == RaiseForStatus(response) IN
    IF st.raised THEN Ran(TRUE, st.exc, PyNone, TRUE, response, 1)
    ELSE
    LET api_response == ResponseJson(response, build) IN
    IF api_response.raised THEN Ran(TRUE, api_response.exc, PyNone, TRUE, response, 1)
    ELSE
    LET hits == Subscript(api_response.v, "retrieved_results") IN
    IF hits.raised THEN Ran(TRUE, hits.exc, PyNone, TRUE, response, 1)
    ELSE
    LET results == CollectSnippets(hits.v, 1, <<>>) IN
    IF results.raised THEN Ran(TRUE, results.exc, PyNone, TRUE, response, 1)
    ELSE Ran(FALSE, NoExc, VectorSuccessEnvelope(question, results.v), TRUE, response, 1)

\* the two except clauses of call_vector_search_api, in order, applied to
\* what the try body did; any other exception leaves the function
VectorExcept(body) ==
    IF ~body.raised THEN Return(body.value, body.attempts)
    ELSE IF IsRequestException(body.exc)
    THEN Return(VectorConnectEnvelope(body.exc), body.attempts)
    ELSE IF IsJSONDecodeError(body.exc)
    THEN IF body.bound
         THEN Return(VectorDecodeEnvelope(body.response), body.attempts)
         ELSE Raise(UnboundResponse, body.attempts)
    ELSE Raise(body.exc, body.attempts)

\* call_vector_search_api: the try body, then its except clauses
call_vector_search_api(question, net, build) ==
    VectorExcept(VectorTry(question, net, build))

(* ------------------------------------------------------------------ *)
(* Tool adapters                                                       *)
(* ------------------------------------------------------------------ *)
\* return json.dumps(response): the adapter's outcome, which also shows the
\* local `response` (the client's outcome); an exception of the client
\* leaves _run
ReturnJsonDumps(response) ==
    IF response.kind = "raise"
    THEN [kind |-> "raise", value |-> PyNone, exc |-> response.exc, response |-> response]
    ELSE [kind |-> "return", value |-> PyStr(Dumps(response.value)), exc |-> NoExc,
          response |-> response]

\* ExternalSqlApiTool._run
ExternalSqlApiTool_run(question, net, build) ==
    ReturnJsonDumps(call_sql_api(question, net, build))

\* ExternalVectorSearchApiTool._run
ExternalVectorSearchApiTool_run(question, net, build) ==
    ReturnJsonDumps(call_vector_search_api(question, net, build))

(* ------------------------------------------------------------------ *)
(* ask_indian_economy_agent                                            *)
(* ------------------------------------------------------------------ *)
Apology == "Sorry, I encountered an error while processing your request."

\* the f-string handed to agent_executor.invoke
AgentInput(question) ==
    "User Question: " \o question \o "\n        Required Analysis:\n"
    \o "        1. Extract precise numerical data\n"
    \o "        2. Find relevant policy documents/explanations\n"
    \o "        3. Show how context explains numbers\n"

\* faulty variant: no except clause, the exception of invoke leaves the function
ask_indian_economy_agent_NoCatch(invoked) ==
    IF invoked.kind = "raise" THEN Raise(invoked.exc, 1)
    ELSE Return(invoked.value.d.output, 1)

\* ask_indian_economy_agent, given what the one agent_executor.invoke call
\* did: result['output'] when it returned, the fixed string on Exception
ask_indian_economy_agent(invoked) ==
    IF invoked.kind = "raise" THEN Return(PyStr(Apology), 1)
    ELSE LET final_response == Subscript(invoked.value, "output") IN
         IF final_response.raised THEN Return(PyStr(Apology), 1)
         ELSE Return(final_response.v, 1)

(* ------------------------------------------------------------------ *)
(* State                                                               *)
(* ------------------------------------------------------------------ *)
VARIABLES
    build,      \* the installed requests library (fixed for a run)
    replPc,     \* position of __main__: "read", "invoke", "exited", "crashed"
    user_input, \* the line read last
    turns,      \* lines read so far
    askCalls,   \* calls of ask_indian_economy_agent made for user_input
    steps,      \* tool calls the agent runtime made in this turn
    lastCall,   \* the last tool call: its input and the adapter's outcome
    invoked,    \* outcome of agent_executor.invoke in this turn
    askResult   \* outcome of ask_indian_economy_agent in this turn

vars == <<build, replPc, user_input, turns, askCalls, steps, lastCall, invoked, askResult>>

\* lines the user may type
Lines == {"quit", "QUIT", "Quit", "quit ", "What is India's GDP in 2023?"}

\* final answers the language model may give
FinalOutputs == {"GDP was 37 (SQL API).", ""}

NoOutcome == [kind |-> "none", value |-> PyNone, exc |-> NoExc, attempts |-> 0]

NoCall ==
    [tool |-> "none", question |-> "",
     net |-> [transport |-> "none", status |-> 0, text |-> ""],
     out |-> [kind |-> "none", value |-> PyNone, exc |-> NoExc, response |-> NoOutcome]]

Init ==
    /\ build \in Builds
    /\ replPc = "read"
    /\ user_input = ""
    /\ turns = 0
    /\ askCalls = 0
    /\ steps = 0
    /\ lastCall = NoCall
    /\ invoked = NoOutcome
    /\ askResult = NoOutcome

(* ------------------------------------------------------------------ *)
(* __main__                                                            *)
(* ------------------------------------------------------------------ *)
\* user_input = input(...); break on 'quit', else enter ask_indian_economy_agent
ReadLine(line) ==
    /\ replPc = "read"
    /\ turns < MaxTurns
    /\ user_input' = line
    /\ turns' = turns + 1
    /\ IF Lower(line) = "quit"
       THEN replPc' = "exited" /\ askCalls' = 0
       ELSE replPc' = "invoke" /\ askCalls' = 1
    /\ steps' = 0
    /\ lastCall' = NoCall
    /\ invoked' = NoOutcome
    /\ askResult' = NoOutcome
    /\ UNCHANGED build

\* input() at end of file: EOFError leaves the loop
ReadEOF ==
    /\ replPc = "read"
    /\ replPc' = "crashed"
    /\ UNCHANGED <<build, user_input, turns, askCalls, steps, lastCall, invoked, askResult>>

\* agent_executor.invoke is over: ask_indian_economy_agent returns (or
\* raises) and the loop goes on to the next input()
AskReturns(outcome, r) ==
    /\ invoked' = outcome
    /\ askResult' = r
    /\ replPc' = IF r.kind = "return" THEN "read" ELSE "crashed"

FinishAsk(outcome) == AskReturns(outcome, ask_indian_economy_agent(outcome))

\* the runtime runs a tool: an exception of the tool leaves invoke
RunTool(tool, question, net, out) ==
    /\ lastCall' = [tool |-> tool, question |-> question, net |-> net, out |-> out]
    /\ IF out.kind = "raise"
       THEN FinishAsk(Raise(out.exc, 0)) /\ UNCHANGED steps
       ELSE steps' = steps + 1 /\ UNCHANGED <<replPc, invoked, askResult>>
    /\ UNCHANGED <<build, user_input, turns, askCalls>>

\* the model asks for external_sql_api
AgentCallsSql(question, net) ==
    /\ replPc = "invoke"
    /\ steps < MaxIterations
    /\ RunTool("sql", question, net, ExternalSqlApiTool_run(question, net, build))

\* the model asks for vector_search_api_tool
AgentCallsVector(question, net) ==
    /\ replPc = "invoke"
    /\ steps < MaxIterations
    /\ RunTool("vector", question, net, ExternalVectorSearchApiTool_run(question, net, build))

\* the model gives its final answer
AgentFinish(output) ==
    /\ replPc = "invoke"
    /\ steps < MaxIterations
    /\ FinishAsk(Return(PyDict(<<"input", "output">>,
                               [input |-> PyStr(AgentInput(user_input)),
                                output |-> PyStr(output)]), 0))
    /\ UNCHANGED <<build, user_input, turns, askCalls, steps, lastCall>>

\* the runtime stops the loop at its iteration limit
AgentIterationLimit ==
    /\ replPc = "invoke"
    /\ steps = MaxIterations
    /\ FinishAsk(Return(PyDict(<<"input", "output">>,
                               [input |-> PyStr(AgentInput(user_input)),
                                output |-> PyStr("Agent stopped due to iteration limit or time limit.")]), 0))
    /\ UNCHANGED <<build, user_input, turns, askCalls, steps, lastCall>>

\* the model or the runtime itself fails
AgentFails ==
    /\ replPc = "invoke"
    /\ steps < MaxIterations
    /\ FinishAsk(Raise(Exc("ConnectError", "model runtime unreachable"), 0))
    /\ UNCHANGED <<build, user_input, turns, askCalls, steps, lastCall>>

Next ==
    \/ \E line \in Lines : ReadLine(line)
    \/ ReadEOF
    \/ \E q \in Questions, net \in NetOutcomes : AgentCallsSql(q, net)
    \/ \E q \in Questions, net \in NetOutcomes : AgentCallsVector(q, net)
    \/ \E output \in FinalOutputs : AgentFinish(output)
    \/ AgentIterationLimit
    \/ AgentFails

Spec == Init /\ [][Next]_vars

(* ------------------------------------------------------------------ *)
(* Properties                                                          *)
(* ------------------------------------------------------------------ *)
SqlCalled == lastCall.tool = "sql"
VectorCalled == lastCall.tool = "vector"
ToolCalled == lastCall.tool \in {"sql", "vector"}

\* what the client returned or raised in the last tool call
Client == lastCall.out.response
ClientReturned == ToolCalled /\ Client.kind = "return"
Envelope == Client.value.d

GotResponse == lastCall.net.transport = "response"
Is2xx == GotResponse /\ lastCall.net.status >= 200 /\ lastCall.net.status < 300
Is4xx5xx == GotResponse /\ lastCall.net.status >= 400 /\ lastCall.net.status < 600
Parsed == JsonLoads(lastCall.net.text)
HasField(name) == Parsed.ok /\ Parsed.v.t = "dict" /\ name \in DOMAIN Parsed.v.d

IsError == Envelope.status = PyStr("error")
IsSuccess == Envelope.status = PyStr("success")
MessageStartsWith(prefix) ==
    /\ "message" \in DOMAIN Envelope
    /\ Envelope.message.t = "str"
    /\ StartsWith(Envelope.message.s, prefix)

\* C1: whatever the single GET does (no response at all, an error status, a
\* 2xx body that is not JSON or has no `result`), call_sql_api returns an
\* error envelope and raises nothing.
C1_SqlClientNeverRaises ==
    (SqlCalled /\ (~GotResponse \/ Is4xx5xx \/ (Is2xx /\ ~HasField("result"))))
        => (Client.kind = "return" /\ IsError)

\* C2: a 2xx answer whose body is not valid JSON gives, in both clients, an
\* error envelope whose message starts with "Failed to decode JSON" and whose
\* data is the raw response text.
C2_DecodeErrorEnvelope ==
    (ToolCalled /\ Is2xx /\ ~Parsed.ok)
        => /\ Client.kind = "return"
           /\ IsError
           /\ MessageStartsWith("Failed to decode JSON")
           /\ Envelope.data = PyStr(lastCall.net.text)

ConnectFailureEnvelope ==
    /\ Client.attempts = 1
    /\ Client.kind = "return"
    /\ IsError
    /\ Envelope.data = PyNone
    /\ MessageStartsWith("Failed to connect")

C4_SqlSuccessEnvelope ==
    (SqlCalled /\ Is2xx /\ HasField("result"))
        => /\ Client.kind = "return"
           /\ IsSuccess
           /\ Envelope.question = PyStr(lastCall.question)
           /\ Envelope.data = Parsed.v.d.result

C4_Witness ==
    /\ SqlCalled
    /\ Is2xx
    /\ lastCall.net.text = BodyGdp
    /\ Client.kind = "return"
    /\ Envelope.data = PyDict(<<"gdp">>, [gdp |-> PyNum(37)])

SnippetDefault(key) ==
    CASE key = "content" -> PyStr("No Title")
      [] key = "source" -> PyStr("No URL")
      [] key = "date" -> PyStr("No Date")

\* C5: on success the document client returns one snippet per hit, in the
\* hits' order, each with exactly the keys content, source and date, holding
\* the hit's value or that key's default.
C5_SnippetsMirrorHits ==
    (VectorCalled /\ Client.kind = "return" /\ IsSuccess)
        => /\ HasField("retrieved_results")
           /\ Parsed.v.d.retrieved_results.t = "list"
           /\ Envelope.data.t = "list"
           /\ LET hits == Parsed.v.d.retrieved_results.items
                  snippets == Envelope.data.items
              IN  /\ Len(snippets) = Len(hits)
                  /\ \A i \in 1..Len(hits) :
                       /\ snippets[i].t = "dict"
                       /\ snippets[i].keys = <<"content", "source", "date">>
                       /\ DOMAIN snippets[i].d = {"content", "source", "date"}
                       /\ \A k \in {"content", "source", "date"} :
                            snippets[i].d[k] =
                              IF k \in DOMAIN hits[i].d THEN hits[i].d[k]
                              ELSE SnippetDefault(k)

C5_Witness ==
    /\ VectorCalled
    /\ lastCall.net.text = BodyTwoHits
    /\ Client.kind = "return"
    /\ IsSuccess
    /\ Len(Envelope.data.items) = 2
    /\ Envelope.data.items[2].d.source = PyStr("No URL")
    /\ Envelope.data.items[2].d.date = PyNone

\* C6: neither adapter raises: _run always returns the string json.dumps
\* makes of the envelope its client returned.
C6_AdaptersNeverRaise ==
    ToolCalled
        => /\ lastCall.out.kind = "return"
           /\ Client.kind = "return"
           /\ lastCall.out.value = PyStr(Dumps(Client.value))

\* C7: once ask_indian_economy_agent is over it has returned a string, after
\* one invoke: the model's final output when invoke returned, and exactly the
\* fixed apology when invoke raised.
C7_AskAlwaysReturnsString ==
    (askCalls = 1 /\ replPc # "invoke")
        => /\ askResult.kind = "return"
           /\ askResult.value.t = "str"
           /\ askResult.attempts = 1
           /\ invoked.kind \in {"return", "raise"}
           /\ (invoked.kind = "raise" => askResult.value = PyStr(Apology))
           /\ (invoked.kind = "return" => askResult.value = invoked.value.d.output)

C7_Witness ==
    /\ VectorCalled
    /\ lastCall.out.kind = "raise"
    /\ lastCall.out.exc.cls = "KeyError"
    /\ invoked.kind = "raise"
    /\ askResult.kind = "return"
    /\ askResult.value = PyStr(Apology)

\* C8: every envelope a client returns has status error or success; an error
\* envelope has a non-empty message and data that is null or the raw response
\* text; a success envelope's data is the `result` value (structured client)
\* or a list of content/source/date snippets (document client).
C8_EnvelopeInvariant ==
    ClientReturned
        => /\ Client.value.t = "dict"
           /\ IsError \/ IsSuccess
           /\ IsError =>
                /\ "message" \in DOMAIN Envelope
                /\ Envelope.message.t = "str"
                /\ Len(Envelope.message.s) > 0
                /\ Envelope.data = PyNone
                   \/ (GotResponse /\ Envelope.data = PyStr(lastCall.net.text))
           /\ (IsSuccess /\ SqlCalled) =>
                (HasField("result") /\ Envelope.data = Parsed.v.d.result)
           /\ (IsSuccess /\ VectorCalled) =>
                /\ Envelope.data.t = "list"
                /\ \A i \in 1..Len(Envelope.data.items) :
                     DOMAIN Envelope.data.items[i].d = {"content", "source", "date"}

C8_Witness ==
    /\ SqlCalled
    /\ Is2xx
    /\ lastCall.net.text = BodyNoResult
    /\ Client.kind = "return"
    /\ IsError
    /\ Envelope.message = PyStr("An unexpected error occurred.")
    /\ Envelope.data = PyStr(BodyNoResult)

\* C9: every envelope a client returns, success or error, has a `question`
\* field equal to the question passed to the call.
C9_EnvelopeCarriesQuestion ==
    ClientReturned
        => /\ "question" \in DOMAIN Envelope
           /\ Envelope.question = PyStr(lastCall.question)

\* the spellings of `quit` in any mix of cases
QuitSpellings ==
    { a \o b \o c \o d : a \in {"q", "Q"}, b \in {"u", "U"},
                         c \in {"i", "I"}, d \in {"t", "T"} }

LineRead == replPc = "read" /\ turns' = turns + 1

\* C10: a line that is `quit` in any case ends the loop with no call of
\* ask_indian_economy_agent; any other line makes exactly one call, and when
\* that call is over (apology or not) the loop is back at reading a line.
C10_ReplLoop ==
    [][ /\ (LineRead /\ user_input' \in QuitSpellings)
            => (replPc' = "exited" /\ askCalls' = 0)
        /\ (LineRead /\ user_input' \notin QuitSpellings)
            => (replPc' = "invoke" /\ askCalls' = 1)
        /\ replPc = "invoke" => askCalls' = askCalls
        /\ (replPc = "invoke" /\ replPc' # "invoke") => replPc' = "read"
        /\ replPc = "exited" => UNCHANGED vars
      ]_vars

C10_Witness ==
    /\ replPc = "read"
    /\ turns = 1
    /\ user_input = "quit "
    /\ askCalls = 1
    /\ askResult.kind = "return"
    /\ askResult.value = PyStr(Apology)

====
